---- MODULE Spec2Model ----
(***************************************************************************)
(* kickstarter-reward-notifier: a model of main.go (the current variant,   *)
(* lines 1-323) and of the notifications package.                          *)
(*                                                                         *)
(* The process is one thread: parseArgs, a bootstrap getProjectData,       *)
(* registerWatchedRewards, then the endless loop sleep / getProjectData /  *)
(* scan of settings.watch.  pc is the position of that thread.             *)
(*                                                                         *)
(* Reward objects live in heap; project.rewards and settings.watch hold    *)
(* pointers into it (NIL for Go's nil).  Every live Reward is reachable    *)
(* through exactly one key of project.rewards, so the object created for   *)
(* reward id i is given address i.                                         *)
(***************************************************************************)
EXTENDS Integers, Sequences, FiniteSets, TLC

\* ---------------------------------------------------------------- bounds
\* getProjectData calls explored: the bootstrap call and MaxFetches - 1 polls.
MaxFetches == 3

\* ------------------------------------------------------------ input sets
\* Go's nil pointer: what project.rewards[i] yields for a missing key.
NIL == 0

\* Reward ids of the documents (whole numbers; int(float64) keeps them).
IDs == {1, 2}

\* The value of a key the entry does not carry: reward["..."] is then the nil
\* interface.
Absent == "<absent>"

\* "title", "title_for_backing_tier" and "minimum" of an entry.  "minimum"
\* arrives as a float64: it is held in half units (21 is 10.5).  The last
\* one has no "title_for_backing_tier" key.
Identities ==
    { [ title |-> "A", title_for_backing_tier |-> "A+", minimum |-> 20 ],
      [ title |-> "B", title_for_backing_tier |-> "B+", minimum |-> 21 ],
      [ title |-> "C", title_for_backing_tier |-> "C+", minimum |-> 40 ],
      [ title |-> "D", title_for_backing_tier |-> Absent, minimum |-> 40 ] }

\* "limit" and "remaining" of an entry (whole float64 numbers).  hasLimit is
\* the presence of the "limit" key; an unlimited reward carries neither key
\* (limit 0 and remaining 0 here: the code reads neither).
Quantities ==
    { [ hasLimit |-> FALSE, limit |-> 0, remaining |-> 0 ] }
    \cup { [ hasLimit |-> TRUE, limit |-> 1, remaining |-> 0 ],
           [ hasLimit |-> TRUE, limit |-> 2, remaining |-> 0 ],
           [ hasLimit |-> TRUE, limit |-> 2, remaining |-> 1 ] }

\* One entry of the document's "rewards" array.
Entry(i, n, q) ==
    [ id |-> i, title |-> n.title,
      title_for_backing_tier |-> n.title_for_backing_tier,
      minimum |-> n.minimum,
      hasLimit |-> q.hasLimit, limit |-> q.limit, remaining |-> q.remaining ]

\* The entry without the key has the higher id: it comes second in an array
\* of two, after an entry the bootstrap loop has already handled.
Entries ==
    { e \in { Entry(i, n, q) : i \in IDs, n \in Identities, q \in Quantities } :
        e.title_for_backing_tier = Absent => e.id = 2 }

\* The "rewards" arrays: each reward id at most once, in id order.
RewardArrays ==
    {<<>>} \cup {<<e>> : e \in Entries}
           \cup { <<e1, e2>> : e1 \in {e \in Entries : e.id = 1},
                               e2 \in {e \in Entries : e.id = 2} }

\* Documents under another project name and currency symbol.
RenamedDocs ==
    [ name : {"proj2"}, currency_symbol : {"EUR"},
      rewards : {<<>>} \cup { <<e>> : e \in { x \in Entries : x.id = 1 /\ x.title = "A" } } ]

\* The decoded window.current_project documents.
Docs ==
    [ name : {"proj"}, currency_symbol : {"$"}, rewards : RewardArrays ]
    \cup RenamedDocs

\* The nil map getProjectJSON returns when it decoded nothing (also the value
\* of doc while no call is being handled).
NoDoc == [ name |-> "", currency_symbol |-> "", rewards |-> <<>> ]

\* The <script> elements of a page, as getProjectJSON sees them: whether the
\* text matches the window.current_project pattern, whether the captured
\* text decodes as JSON, and the document it decodes to.
NoMatchScript == [ match |-> FALSE, valid |-> FALSE, doc |-> NoDoc ]

BadScript == [ match |-> TRUE, valid |-> FALSE, doc |-> NoDoc ]

DocScript(d) == [ match |-> TRUE, valid |-> TRUE, doc |-> d ]

\* Documents used where a page holds more than one script.
SampleDocs ==
    { d \in Docs : /\ Len(d.rewards) = 1
                   /\ d.rewards[1].id = 1 /\ d.rewards[1].title = "A"
                   /\ d.rewards[1].hasLimit /\ d.rewards[1].remaining = 0 }

\* The pages explored: their scripts in document order.
Pages ==
    { <<>>, <<NoMatchScript>>, <<BadScript>>, <<NoMatchScript, BadScript>> }
    \cup { <<DocScript(d)>> : d \in Docs }
    \cup { <<NoMatchScript, DocScript(d)>> : d \in SampleDocs }
    \cup { <<BadScript, DocScript(d)>> : d \in SampleDocs }
    \cup { <<DocScript(d), BadScript>> : d \in SampleDocs }

\* HTTP status codes of the responses explored.
Statuses == {200, 204, 404}

\* What http.Get and the read of the body give (main.go:103, 116): err is a
\* transport failure, with no status to look at; body is the page (left
\* empty where the status is not 200: the code does not read it then).
Responses ==
    { [ err |-> TRUE, status |-> 0, body |-> <<>> ] }
    \cup { [ err |-> FALSE, status |-> c, body |-> <<>> ] : c \in Statuses \ {200} }
    \cup { [ err |-> FALSE, status |-> 200, body |-> b ] : b \in Pages }

NoResponse == [ err |-> FALSE, status |-> 0, body |-> <<>> ]

\* --rewards lists (prices) the command line may carry.
WatchLists == { <<>>, <<10>>, <<30>>, <<10, 30>> }

\* What a Telegram delivery attempt meets: success, bot.Send returning an
\* error, or tb.NewBot returning (nil, err).
SendOutcomes == {"ok", "senderr", "newboterr"}

\* The command lines explored.
Argvs ==
    { a \in [ help : BOOLEAN, test : BOOLEAN, nargs : {0, 1, 2}, urlOK : BOOLEAN,
              all : BOOLEAN, rewards : WatchLists, quiet : BOOLEAN,
              tgToken : {"", "tok"}, tgUserID : {0, 7} ] :
        \* --quiet is explored on the plain --all command line
        /\ a.quiet => ( /\ ~a.help /\ ~a.test /\ a.nargs = 1 /\ a.urlOK
                        /\ a.all /\ a.rewards = <<>>
                        /\ a.tgToken = "" /\ a.tgUserID = 0 )
        \* runs that do not stop in parseArgs vary the selection flags; the
        \* others vary the flags parseArgs itself reads
        /\ (a.help \/ a.nargs # 1 \/ ~a.urlOK \/ a.test \/ a.tgToken # "" \/ a.tgUserID # 0)
              => (a.rewards = <<>> /\ a.all)
        /\ (a.tgToken # "" \/ a.tgUserID # 0) => (a.test \/ (a.tgToken # "" /\ a.tgUserID # 0))
        /\ a.all => a.rewards \in {<<>>, <<10>>} }

VARIABLES
    pc,        \* position of the main thread
    halt,      \* "" while running; how the process ended otherwise
    argv,      \* the parsed command line (pflag values, notifier flag values)
    project,   \* the global Project
    heap,      \* the Reward objects, by address
    watch,     \* settings.watch: key -> address or NIL
    doc,       \* `data` of the getProjectData call just made (main.go:68),
               \* kept until main's next step
    fetches,   \* getProjectData calls made so far whose response was parsed
    prompted,  \* the survey prompt was shown
    warned,    \* prices reported as matching no reward
    scanTodo,  \* keys of settings.watch the running scan has yet to visit
    found,     \* main's local `found`
    notified,  \* availability notifications emitted by the loop (main.go:
               \* 310-316): <<number of the getProjectData call, title_with_price>>
    sent,      \* messages handed to a configured channel: <<call, text>>
    testOutcome, \* what the delivery of the test notification met ("" when
               \* none was attempted)
    heartbeats, \* the cycles (numbers of their getProjectData call) at whose end
               \* the heartbeat "." was printed, in order
    sendResult, \* what the latest SendNotification call returned ("" before
               \* the first)
    response   \* what the http.Get of the getProjectData call just made gave,
               \* kept as doc is (NoResponse otherwise)

vars == <<pc, halt, argv, project, heap, watch, doc, fetches, prompted, warned,
          scanTodo, found, notified, sent, testOutcome, sendResult,
          heartbeats, response>>

\* ------------------------------------------------------------- helpers
Put(f, k, v) == [x \in (DOMAIN f) \cup {k} |-> IF x = k THEN v ELSE f[x]]

Range(s) == {s[i] : i \in DOMAIN s}

\* int(x) of a float64 held in half units: truncation toward zero.
ToInt(h) == h \div 2

\* ------------------------------------------------------ getProjectJSON
\* main.go:124-132: EachWithBreak stops at the first script whose text matches
\* the pattern.  0 when no script matches.
FirstMatch(b) ==
    IF \E i \in DOMAIN b : b[i].match
    THEN CHOOSE i \in DOMAIN b : b[i].match /\ \A j \in 1..(i - 1) : ~b[j].match
    ELSE 0

\* main.go:121-134: the map decoded from the first matching script.  The
\* error of json.Unmarshal is dropped: invalid JSON leaves the map nil, as no
\* match does.
getProjectJSONFirstValid(b) ==
    IF \E i \in DOMAIN b : b[i].match /\ b[i].valid
    THEN b[CHOOSE i \in DOMAIN b :
               /\ b[i].match /\ b[i].valid
               /\ \A j \in 1..(i - 1) : ~(b[j].match /\ b[j].valid)].doc
    ELSE NoDoc

getProjectJSON(b) ==
    IF FirstMatch(b) # 0 /\ b[FirstMatch(b)].valid
    THEN b[FirstMatch(b)].doc
    ELSE NoDoc

\* ------------------------------------------------------ getProjectData
\* main.go:77: the bootstrap loop's condition on a reward entry.
BootstrapCandidateNoRemaining(e) == e.hasLimit

BootstrapCandidate(e) == e.hasLimit /\ e.remaining = 0

\* main.go:93: the refresh loop's condition on a reward entry.
RefreshConditionAvailable(e) == e.hasLimit /\ e.remaining > 0

RefreshCondition(e) == e.hasLimit /\ e.remaining = 0

\* main.go:81: reward["title_for_backing_tier"].(string) panics on the nil
\* interface of a missing key.
MissingFieldIgnored(e) == FALSE

MissingField(e) == e.title_for_backing_tier = Absent

\* main.go:79-84: the Reward literal; available and limit keep Go's zero.
NewReward(e) ==
    [ id |-> e.id, title |-> e.title,
      title_with_price |-> e.title_for_backing_tier,
      price |-> ToInt(e.minimum), available |-> 0, limit |-> 0 ]

\* main.go:95-96: the two assignments of the refresh loop.
RefreshRewardAll(r, e) ==
    [ r EXCEPT !.available = e.remaining, !.limit = e.limit,
               !.title = e.title,
               !.title_with_price = e.title_for_backing_tier,
               !.price = ToInt(e.minimum) ]

RefreshReward(r, e) == [ r EXCEPT !.available = e.remaining, !.limit = e.limit ]

\* main.go:74-86: the bootstrap loop over data["rewards"]; st holds the map
\* and the heap built so far.  A panic in the Reward literal ends the loop
\* with the entries inserted before it.
RECURSIVE BootstrapLoop(_, _)
BootstrapLoop(es, st) ==
    IF es = <<>> \/ st.panic THEN st
    ELSE LET e == Head(es)
         IN  BootstrapLoop(Tail(es),
                 IF BootstrapCandidate(e)
                 THEN IF MissingField(e)
                      THEN [ st EXCEPT !.panic = TRUE ]
                      ELSE [ st EXCEPT !.rewards = Put(st.rewards, e.id, e.id),
                                       !.heap = Put(st.heap, e.id, NewReward(e)) ]
                 ELSE st)

\* A refresh loop that inserts the qualifying entries the map lacks.
RECURSIVE RefreshLoopInsert(_, _)
RefreshLoopInsert(es, st) ==
    IF es = <<>> \/ st.panic THEN st
    ELSE LET e == Head(es)
         IN  RefreshLoopInsert(Tail(es),
                 IF RefreshCondition(e)
                 THEN IF e.id \in DOMAIN st.rewards
                      THEN [ st EXCEPT !.heap[st.rewards[e.id]] = RefreshReward(@, e) ]
                      ELSE [ st EXCEPT !.rewards = Put(st.rewards, e.id, e.id),
                                       !.heap = Put(st.heap, e.id, NewReward(e)) ]
                 ELSE st)

\* main.go:90-98: the refresh loop.  project.rewards[id] of a missing id is
\* nil and the assignment through it panics (nil pointer dereference); the
\* writes made before the panic stay.
RECURSIVE RefreshLoop(_, _)
RefreshLoop(es, st) ==
    IF es = <<>> \/ st.panic THEN st
    ELSE LET e == Head(es)
         IN  RefreshLoop(Tail(es),
                 IF RefreshCondition(e)
                 THEN IF e.id \in DOMAIN st.rewards
                      THEN [ st EXCEPT !.heap[st.rewards[e.id]] = RefreshReward(@, e) ]
                      ELSE [ st EXCEPT !.panic = TRUE ]
                 ELSE st)

\* main.go:70: the bootstrap branch runs while the project is uninitialized.
BootstrapBranchAlways == TRUE

BootstrapBranch == ~project.initialized

\* main.go:67-99 on the decoded document d: the new project, the new heap and
\* whether the call panicked.  On the nil map the first type assertion
\* (main.go:71, or main.go:90 once initialized) panics before any write.  A
\* panic of the bootstrap loop leaves name and currency_symbol assigned
\* (main.go:71-72) and initialized false.
getProjectData(d) ==
    LET boot == IF BootstrapBranch
                THEN BootstrapLoop(d.rewards,
                         [ rewards |-> <<>>, heap |-> <<>>, panic |-> FALSE ])
                ELSE [ rewards |-> project.rewards, heap |-> heap,
                       panic |-> FALSE ]
        p1 == IF BootstrapBranch
              THEN [ name |-> d.name, currency_symbol |-> d.currency_symbol,
                     rewards |-> boot.rewards, initialized |-> ~boot.panic ]
              ELSE project
        fin == RefreshLoop(d.rewards,
                   [ rewards |-> boot.rewards, heap |-> boot.heap,
                     panic |-> boot.panic ])
    IN  IF d = NoDoc
        THEN [ project |-> project, heap |-> heap, panic |-> TRUE ]
        ELSE [ project |-> [ p1 EXCEPT !.rewards = fin.rewards ],
               heap |-> fin.heap, panic |-> fin.panic ]

\* ------------------------------------------------------- notifications
\* telegram.go:74-77 (isConfigured): both the token and the user id are set.
TelegramIsConfiguredTokenOnly == argv.tgToken # ""

TelegramIsConfigured == argv.tgToken # "" /\ argv.tgUserID # 0

\* telegram.go:59-71 (Telegram.Send) meeting outcome o: "nil", "err", or
\* "panic" when tb.NewBot returned (nil, err), the error is dropped and
\* bot.Send runs on the nil *Bot.
TelegramSend(o) ==
    IF TelegramIsConfigured
    THEN CASE o = "newboterr" -> "panic"
           [] o = "senderr"   -> "err"
           [] OTHER           -> "nil"
    ELSE "nil"

\* notifiers.go:55-67 (SendNotification): the one notifier is Telegram.
SendNotification(o) == TelegramSend(o)

\* notifiers.go:80-113 (TestNotifiers): "err" when no notifier is configured or
\* one failed, "nil" otherwise, "panic" as Telegram.Send.
TestNotifiersNoCount(o) == TelegramSend(o)

TestNotifiers(o) ==
    IF ~TelegramIsConfigured THEN "err" ELSE TelegramSend(o)

\* The notifications a call hands to a configured channel.
Delivered(cycle, text) ==
    IF TelegramIsConfigured THEN {<<cycle, text>>} ELSE {}

\* ------------------------------------------------------------ the process
Init ==
    /\ pc = "parseArgs"
    /\ halt = ""
    /\ argv \in Argvs
    /\ project = [ name |-> "", currency_symbol |-> "", rewards |-> <<>>,
                   initialized |-> FALSE ]
    /\ heap = <<>>
    /\ watch = <<>>
    /\ doc = NoDoc
    /\ fetches = 0
    /\ prompted = FALSE
    /\ warned = {}
    /\ scanTodo = {}
    /\ found = FALSE
    /\ notified = {}
    /\ sent = {}
    /\ testOutcome = ""
    /\ sendResult = ""
    /\ heartbeats = <<>>
    /\ response = NoResponse

Halt(how) == pc' = "halted" /\ halt' = how

\* main.go:206: len(pflag.Args()) != 1.
ArgCountInvalidBelowOne == argv.nargs < 1

ArgCountInvalid == argv.nargs # 1

\* main.go:137-222 (parseArgs).  o is what the test delivery meets.
ParseArgs ==
    /\ pc = "parseArgs"
    /\ UNCHANGED heartbeats
    /\ \E o \in SendOutcomes :
         LET t == IF argv.test THEN TestNotifiers(o) ELSE "nil"
             attempt == argv.test /\ ~argv.help /\ TelegramIsConfigured
         IN  /\ IF argv.help THEN Halt("exit0")
                ELSE IF t = "panic" THEN Halt("panic:Telegram.Send")
                ELSE IF t = "err" THEN Halt("exit1:test")
                ELSE IF ArgCountInvalid THEN Halt("exit1:args")
                ELSE IF ~argv.urlOK THEN Halt("exit1:url")
                ELSE pc' = "bootstrap" /\ halt' = halt
             /\ sent' = IF attempt THEN sent \cup Delivered(0, "test") ELSE sent
             /\ testOutcome' = IF attempt THEN o ELSE testOutcome
    /\ UNCHANGED <<argv, project, heap, watch, doc, fetches, prompted, warned,
                   scanTodo, found, notified, sendResult, response>>

\* main.go:103-119: getProjectJSON ends the process (log.Fatal) when the
\* transport failed or the status is not 200.
FetchFatalOutside2xx(r) == r.err \/ r.status \notin 200..299

FetchFatal(r) == r.err \/ r.status # 200

\* main.go:102-119: a getProjectJSON call whose response is fatal.
FetchFails ==
    /\ pc \in {"bootstrap", "fetch"}
    /\ UNCHANGED heartbeats
    /\ \E r \in Responses :
         /\ FetchFatal(r)
         /\ response' = r
    /\ Halt("fatal")
    /\ UNCHANGED <<argv, project, heap, watch, doc, fetches, prompted, warned,
                   scanTodo, found, notified, sent, testOutcome,
                   sendResult>>

\* main.go:301: the first getProjectData call, on a response getProjectJSON
\* goes on to parse.
Bootstrap ==
    /\ pc = "bootstrap"
    /\ UNCHANGED heartbeats
    /\ \E r \in Responses :
         /\ ~FetchFatal(r)
         /\ response' = r
         /\ LET d == getProjectJSON(r.body)
                g == getProjectData(d)
            IN  /\ doc' = d
                /\ project' = g.project
                /\ heap' = g.heap
                /\ IF g.panic THEN Halt("panic:getProjectData")
                   ELSE pc' = "register" /\ halt' = halt
    /\ fetches' = fetches + 1
    /\ UNCHANGED <<argv, watch, prompted, warned, scanTodo, found, notified, sent, testOutcome,
                   sendResult>>

\* ------------------------------------------------ registerWatchedRewards
\* main.go:226: len(project.rewards) == 0.
CatalogEmptyNever == FALSE

CatalogEmpty == Cardinality(DOMAIN project.rewards) = 0

\* project.rewards[i] as Go evaluates it: nil for a key the map lacks.
Lookup(i) == IF i \in DOMAIN project.rewards THEN project.rewards[i] ELSE NIL

\* main.go:286-294 (findRewardsByPrice): the ids of the catalog rewards at
\* that price (a slice in map order; only its length is read by the caller).
findRewardsByPrice(price) ==
    { i \in DOMAIN project.rewards : heap[project.rewards[i]].price = price }

\* main.go:241: `for i := range r` yields the indices of the slice r.
RangeOf(r) == 0 .. (Cardinality(r) - 1)

\* main.go:236-245: the loop over the requested prices, from watch map w.
RECURSIVE PriceLoop(_, _)
PriceLoop(list, w) ==
    IF list = <<>> THEN w
    ELSE LET r == findRewardsByPrice(Head(list))
         IN  PriceLoop(Tail(list),
                 [ k \in (DOMAIN w) \cup RangeOf(r) |->
                     IF k \in RangeOf(r) THEN Lookup(k) ELSE w[k] ])

\* main.go:238-239: the prices reported as matching nothing.
Unmatched(list) == { p \in Range(list) : findRewardsByPrice(p) = {} }

\* main.go:233-234: with --all settings.watch is the map project.rewards
\* itself, so a write to the catalog map is a write to the watch map.
WatchAliased == argv.all

\* main.go:230-246: settings.watch after the all / price-list branches.  With
\* --all the map is project.rewards itself; its keys never change afterwards.
SelectedWatchListFirst ==
    IF argv.rewards # <<>> THEN PriceLoop(argv.rewards, <<>>)
    ELSE IF argv.all THEN project.rewards
    ELSE <<>>

SelectedWatch ==
    IF argv.all THEN project.rewards
    ELSE IF argv.rewards # <<>> THEN PriceLoop(argv.rewards, <<>>)
    ELSE <<>>

\* main.go:249: the prompt is shown when the watch map is still empty.  (The
\* legacy variant, main.go:509-511, prompts only when neither flag is given.)
NeedsPromptLegacy(w) == ~argv.all /\ argv.rewards = <<>>

NeedsPrompt(w) == Cardinality(DOMAIN w) = 0

\* askRewardsToWatch storing each ticked reward under its prompt index.
askRewardsToWatchByIndex(w, sel) ==
    [ k \in (DOMAIN w) \cup (0 .. (Cardinality(sel) - 1)) |->
        IF k \in 0 .. (Cardinality(sel) - 1)
        THEN CHOOSE a \in sel : Cardinality({ b \in sel : b < a }) = k
        ELSE w[k] ]

\* main.go:262-283 (askRewardsToWatch) with the rewards sel ticked in the
\* prompt: each is stored under its id field.
askRewardsToWatch(w, sel) ==
    [ k \in (DOMAIN w) \cup { heap[a].id : a \in sel } |->
        IF \E a \in sel : heap[a].id = k
        THEN CHOOSE a \in sel : heap[a].id = k
        ELSE w[k] ]

\* main.go:225-259.  sel is what survey.AskOne leaves in `selection`: a
\* non-empty choice, or nothing when AskOne returns an error (dropped).
RegisterWatchedRewards(sel) ==
    /\ pc = "register"
    /\ UNCHANGED heartbeats
    /\ IF CatalogEmpty
       THEN /\ Halt("exit0")
            /\ UNCHANGED <<watch, prompted, warned>>
       ELSE LET w1 == SelectedWatch
                ask == NeedsPrompt(w1)
                w2 == IF ask THEN askRewardsToWatch(w1, sel) ELSE w1
            IN  /\ watch' = w2
                /\ prompted' = ask
                /\ warned' = IF ~argv.all THEN Unmatched(argv.rewards) ELSE {}
                \* main.go:255-257: the summary reads w.title_with_price
                /\ IF \E k \in DOMAIN w2 : w2[k] = NIL
                   THEN Halt("panic:registerWatchedRewards")
                   ELSE pc' = "sleep" /\ halt' = halt
    /\ doc' = NoDoc
    /\ response' = NoResponse
    /\ UNCHANGED <<argv, project, heap, fetches, scanTodo, found, notified, sent,
                   testOutcome, sendResult>>

\* ---------------------------------------------------------- the poll loop
\* main.go:304.
Sleep ==
    /\ pc = "sleep"
    /\ UNCHANGED heartbeats
    /\ fetches < MaxFetches
    /\ pc' = "fetch"
    /\ UNCHANGED <<halt, argv, project, heap, watch, doc, fetches, prompted,
                   warned, scanTodo, found, notified, sent, testOutcome,
                   sendResult, response>>

\* main.go:305-307: getProjectData on a response getProjectJSON goes on to
\* parse, found := false, and the start of the range over settings.watch.
Poll ==
    /\ pc = "fetch"
    /\ UNCHANGED heartbeats
    /\ \E r \in Responses :
         /\ ~FetchFatal(r)
         /\ response' = r
         /\ LET d == getProjectJSON(r.body)
                g == getProjectData(d)
            IN  /\ doc' = d
                /\ project' = g.project
                /\ heap' = g.heap
                /\ watch' = IF WatchAliased THEN g.project.rewards ELSE watch
                /\ IF g.panic
                   THEN Halt("panic:getProjectData") /\ UNCHANGED <<scanTodo, found>>
                   ELSE /\ pc' = "scan" /\ halt' = halt
                        /\ found' = FALSE
                        /\ scanTodo' = DOMAIN watch'
    /\ fetches' = fetches + 1
    /\ UNCHANGED <<argv, prompted, warned, notified, sent, testOutcome,
                   sendResult>>

\* main.go:307-318: one iteration of the range, on key k (Go's map order is
\* unspecified: any unvisited key may come next).
ScanOne(k) ==
    /\ pc = "scan"
    /\ UNCHANGED heartbeats
    /\ k \in scanTodo
    /\ scanTodo' = scanTodo \ {k}
    /\ \E o \in SendOutcomes :
         LET r == watch[k]
         IN  IF r = NIL
             THEN Halt("panic:main")
                  /\ UNCHANGED <<found, notified, sent, testOutcome, sendResult>>
             ELSE IF heap[r].available > 0
             THEN /\ found' = TRUE
                  /\ notified' = notified \cup {<<fetches, heap[r].title_with_price>>}
                  /\ sent' = sent \cup Delivered(fetches, heap[r].title_with_price)
                  /\ testOutcome' = testOutcome
                  /\ IF SendNotification(o) = "panic"
                     THEN Halt("panic:Telegram.Send") /\ sendResult' = sendResult
                     ELSE /\ sendResult' = SendNotification(o)
                          /\ UNCHANGED <<pc, halt>>
             ELSE UNCHANGED <<pc, halt, found, notified, sent, testOutcome,
                              sendResult>>
    /\ UNCHANGED <<argv, project, heap, watch, doc, fetches, prompted, warned,
                   response>>

\* main.go:319: the heartbeat is printed when nothing was found and quiet
\* mode is off.
HeartbeatQuietToo == ~found

Heartbeat == ~found /\ ~argv.quiet

\* A scan left before the range is over.
ScanDoneEarly ==
    /\ pc = "scan"
    /\ heartbeats' = IF Heartbeat THEN Append(heartbeats, fetches) ELSE heartbeats
    /\ pc' = "sleep"
    /\ doc' = NoDoc
    /\ response' = NoResponse
    /\ UNCHANGED <<halt, argv, project, heap, watch, fetches, prompted,
                   warned, scanTodo, found, notified, sent, testOutcome,
                   sendResult>>

\* main.go:319-321: the range is over: the heartbeat, then back to the sleep.
ScanDone ==
    /\ pc = "scan"
    /\ scanTodo = {}
    /\ heartbeats' = IF Heartbeat THEN Append(heartbeats, fetches) ELSE heartbeats
    /\ pc' = "sleep"
    /\ doc' = NoDoc
    /\ response' = NoResponse
    /\ UNCHANGED <<halt, argv, project, heap, watch, fetches, prompted,
                   warned, scanTodo, found, notified, sent, testOutcome,
                   sendResult>>

Next ==
    \/ ParseArgs
    \/ FetchFails
    \/ Bootstrap
    \/ \E sel \in SUBSET (DOMAIN heap) : RegisterWatchedRewards(sel)
    \/ Sleep
    \/ Poll
    \/ \E k \in scanTodo : ScanOne(k)
    \/ ScanDone

Spec == Init /\ [][Next]_vars

\* ------------------------------------------- the notifications package
\* The package driven on its own: the notifier flags hold the values of a
\* command line and SendNotification is called with one message after another.
Messages == {"m1", "m2", "m3"}

InitSend ==
    /\ pc = "send"
    /\ halt = ""
    /\ argv \in { a \in Argvs : ~a.help /\ a.nargs = 1 /\ a.urlOK }
    /\ project = [ name |-> "", currency_symbol |-> "", rewards |-> <<>>,
                   initialized |-> FALSE ]
    /\ heap = <<>>
    /\ watch = <<>>
    /\ doc = NoDoc
    /\ fetches = 0
    /\ prompted = FALSE
    /\ warned = {}
    /\ scanTodo = {}
    /\ found = FALSE
    /\ notified = {}
    /\ sent = {}
    /\ testOutcome = ""
    /\ sendResult = ""
    /\ heartbeats = <<>>
    /\ response = NoResponse

\* notifiers.go:55-67: one SendNotification(m) call, its delivery meeting
\* outcome o.  notified collects the messages passed in, sent those handed
\* to a configured channel.
SendCall ==
    /\ pc = "send"
    /\ UNCHANGED heartbeats
    /\ \E m \in Messages, o \in SendOutcomes :
         /\ notified' = notified \cup {<<0, m>>}
         /\ sent' = sent \cup Delivered(0, m)
         /\ IF SendNotification(o) = "panic"
            THEN Halt("panic:Telegram.Send") /\ sendResult' = sendResult
            ELSE /\ sendResult' = SendNotification(o)
                 /\ UNCHANGED <<pc, halt>>
    /\ UNCHANGED <<argv, project, heap, watch, doc, fetches, prompted, warned,
                   scanTodo, found, testOutcome, response>>

NextSend == SendCall

SpecSend == InitSend /\ [][NextSend]_vars

\* =============================================================== claims
Keys == DOMAIN project.rewards

\* registerWatchedRewards has returned and the loop runs.
Watching == pc \in {"sleep", "fetch", "scan"}

\* The catalog Reward of id i.
Catalog(i) == heap[project.rewards[i]]

Identity(r) == <<r.id, r.title, r.title_with_price, r.price>>

\* "remaining" of reward i in the document (0 when the document lacks it).
DocRemaining(i) ==
    IF \E e \in Range(doc.rewards) : e.id = i
    THEN (CHOOSE e \in Range(doc.rewards) : e.id = i).remaining
    ELSE 0

\* The scan of the running cycle has visited every key of settings.watch.
ScanOver == pc = "scan" /\ scanTodo = {}

\* No catalog Reward ever holds a positive `available`: the refresh loop
\* writes it only from entries whose remaining is 0 (main.go:93-95).
AvailableStaysZero == \A a \in DOMAIN heap : heap[a].available = 0

\* C1 (as claimed; the code violates it): when the scan of a poll cycle is
\* over, a notification for a watched reward has been emitted in that cycle
\* exactly if the cycle's document gives it remaining > 0.
C1_NotifiedIffRemaining ==
    ScanOver =>
        \A k \in DOMAIN watch :
            watch[k] # NIL =>
                ( <<fetches, heap[watch[k]].title_with_price>> \in notified
                  <=> DocRemaining(heap[watch[k]].id) > 0 )

\* C2: after the bootstrap call the keys of project.rewards are exactly the
\* ids of the bootstrap document's entries that have a limit and remaining
\* 0, and no later step adds or removes a key.
C2_CatalogFixedAtBootstrap ==
    /\ [](pc = "register" =>
            Keys = { e.id : e \in { x \in Range(doc.rewards) :
                                      x.hasLimit /\ x.remaining = 0 } })
    /\ [][project.initialized => DOMAIN project'.rewards = DOMAIN project.rewards]_vars

\* C2 witness: two polls after bootstrap, the catalog holds one of the two
\* ids and the poll's document offers the other one as a limited reward.
C2_Witness ==
    /\ pc = "scan" /\ fetches >= 3
    /\ Cardinality(Keys) = 1
    /\ \E e \in Range(doc.rewards) : e.id \notin Keys /\ e.hasLimit

\* C3 (as claimed; the code violates it): after every getProjectData call
\* each limited entry of the document whose id is in the catalog has set
\* the catalog entry's available and limit.
C3_RefreshWritesRemaining ==
    pc \in {"register", "scan"} =>
        \A e \in Range(doc.rewards) :
            (e.hasLimit /\ e.id \in Keys) =>
                /\ Catalog(e.id).available = e.remaining
                /\ Catalog(e.id).limit = e.limit

\* C4: the identity fields of a catalog reward are those of its bootstrap
\* entry, and no step after bootstrap changes them.
C4_IdentityImmutable ==
    /\ [](pc = "register" =>
            \A i \in Keys : \E e \in Range(doc.rewards) :
                Identity(Catalog(i)) =
                    <<i, e.title, e.title_for_backing_tier, ToInt(e.minimum)>>)
    /\ [][project.initialized =>
            \A i \in Keys :
                /\ i \in DOMAIN project'.rewards
                /\ Identity(heap'[project'.rewards[i]]) = Identity(Catalog(i))]_vars

\* C4 witness: a poll has refreshed a catalog reward (its limit now differs
\* from the bootstrap one) from an entry with another title and price.
C4_Witness ==
    /\ pc = "scan" /\ fetches >= 2
    /\ \E e \in Range(doc.rewards) :
          /\ RefreshCondition(e) /\ e.id \in Keys
          /\ e.title # Catalog(e.id).title
          /\ e.title_for_backing_tier # Catalog(e.id).title_with_price
          /\ ToInt(e.minimum) # Catalog(e.id).price
          /\ Catalog(e.id).limit = e.limit

\* C5 (as claimed; the code violates it): a poll whose document holds a
\* limited entry with remaining 0 for an id the catalog lacks completes and
\* reaches the scan.
C5_UnknownCandidateIgnored ==
    ( /\ fetches >= 2
      /\ \E e \in Range(doc.rewards) :
            e.hasLimit /\ e.remaining = 0 /\ e.id \notin Keys )
    => pc = "scan"

\* C6 (as claimed; the code violates it): in price-list mode, once the watch
\* map is built without the prompt, it holds exactly the catalog rewards at
\* a requested price, each under its id.
C6_PriceListWatch ==
    ( /\ ~argv.all /\ argv.rewards # <<>> /\ ~prompted
      /\ Watching \/ halt = "panic:registerWatchedRewards" )
    => watch = [ i \in { j \in Keys : Catalog(j).price \in Range(argv.rewards) }
                   |-> project.rewards[i] ]

\* C7: in price-list mode, when no requested price matches a catalog
\* reward, the loop is entered only after the prompt was shown.
C7_NoMatchPrompts ==
    ( /\ Watching /\ ~argv.all /\ argv.rewards # <<>>
      /\ \A p \in Range(argv.rewards) : \A i \in Keys : Catalog(i).price # p )
    => prompted

\* C7 witness: the loop runs in price-list mode with no price matching,
\* after a prompt that selected a reward.
C7_Witness ==
    /\ Watching /\ ~argv.all /\ argv.rewards # <<>>
    /\ \A p \in Range(argv.rewards) : \A i \in Keys : Catalog(i).price # p
    /\ prompted /\ DOMAIN watch # {}

\* C8: with --all the watch map is the catalog (same keys, same objects),
\* whatever --rewards holds, with no prompt, no warning and no failure of
\* registerWatchedRewards.
C8_AllWatchesCatalog ==
    argv.all =>
        /\ halt # "panic:registerWatchedRewards"
        /\ Watching => ( /\ watch = project.rewards
                         /\ Keys # {}
                         /\ ~prompted
                         /\ warned = {} )

\* C8 witness: --all with --rewards 10 on a catalog of two rewards, one of
\* them priced 10.
C8_Witness ==
    /\ Watching /\ argv.all /\ argv.rewards = <<10>>
    /\ Cardinality(Keys) = 2
    /\ \E i \in Keys : Catalog(i).price = 10
    /\ \E i \in Keys : Catalog(i).price # 10

\* C9: with an empty catalog after bootstrap the process is either about to
\* run registerWatchedRewards or has exited with status 0; nothing was
\* selected, prompted, warned, polled or notified.
C9_EmptyCatalogExits ==
    (project.initialized /\ DOMAIN project.rewards = {}) =>
        /\ pc = "register" \/ (pc = "halted" /\ halt = "exit0")
        /\ watch = <<>>
        /\ ~prompted
        /\ warned = {}
        /\ fetches = 1
        /\ notified = {}

\* C9 witness: the exit with status 0 on an empty catalog, with --rewards
\* given.
C9_Witness ==
    /\ pc = "halted" /\ halt = "exit0"
    /\ project.initialized /\ DOMAIN project.rewards = {}
    /\ argv.rewards # <<>>

\* Exits of parseArgs at the argument validation (main.go:206-215).
ArgumentError == pc = "halted" /\ halt \in {"exit1:args", "exit1:url"}

\* C11 (as the code has it): with --test-notification and without --help,
\* parseArgs exits with status 1 at the test exactly when no notifier is
\* configured or the configured notifier's send returns an error; when the
\* bot client cannot be created the process panics; when the send succeeds
\* startup goes on to the argument validation and, past it, the first fetch.
C11_TestNotification ==
    (argv.test /\ ~argv.help /\ pc # "parseArgs") =>
        /\ halt = "exit1:test" <=>
               (~TelegramIsConfigured \/ testOutcome = "senderr")
        /\ halt = "panic:Telegram.Send" <=>
               (TelegramIsConfigured /\ testOutcome = "newboterr")
        /\ (TelegramIsConfigured /\ testOutcome = "ok") =>
               IF argv.nargs # 1 THEN halt = "exit1:args"
               ELSE IF ~argv.urlOK THEN halt = "exit1:url"
               ELSE pc = "bootstrap" \/ fetches >= 1 \/ halt = "fatal"

\* C11 witness: --test-notification without a configured notifier ended in
\* the exit with status 1.
C11_Witness ==
    /\ argv.test /\ ~argv.help /\ ~TelegramIsConfigured
    /\ pc = "halted" /\ halt = "exit1:test"

\* C11 as stated: with --test-notification the exit with status 1 at the test
\* happens exactly when a configured notifier returned an error.
C11_ExitOnlyOnNotifierError ==
    (argv.test /\ ~argv.help /\ pc # "parseArgs") =>
        (halt = "exit1:test" <=>
            (TelegramIsConfigured /\ testOutcome = "senderr"))

\* C12 (as the code has it): with a wrong argument count or an unparsable
\* URL the process never leaves parseArgs: no fetch is made, the catalog is
\* never built, and the exit status is 0 only under --help; at the exits of
\* the argument validation the test notification has been sent exactly when
\* --test-notification was given.
C12_ArgumentError ==
    (argv.nargs # 1 \/ ~argv.urlOK) =>
        /\ pc \in {"parseArgs", "halted"}
        /\ fetches = 0 /\ ~project.initialized /\ doc = NoDoc
        /\ pc = "halted" =>
               /\ halt \in {"exit0", "exit1:test", "panic:Telegram.Send",
                             "exit1:args", "exit1:url"}
               /\ halt = "exit0" <=> argv.help
        /\ ArgumentError =>
               sent = IF argv.test THEN {<<0, "test">>} ELSE {}

\* C12 witness: the exit for a wrong argument count, reached after the test
\* notification went out.
C12_Witness ==
    /\ ArgumentError /\ halt = "exit1:args"
    /\ argv.test /\ sent = {<<0, "test">>}

\* C12 as stated: at the exits of the argument validation no test
\* notification has been sent and no fetch has been made.
C12_NothingBeforeArgumentError ==
    ArgumentError => (sent = {} /\ fetches = 0)

\* The bootstrap document holds a qualifying entry (limit declared, remaining
\* 0) without "title_for_backing_tier".
MalformedBootstrap ==
    /\ fetches = 1
    /\ \E e \in Range(doc.rewards) :
          e.hasLimit /\ e.remaining = 0 /\ e.title_for_backing_tier = Absent

\* C13: a bootstrap document with a qualifying entry that lacks
\* "title_for_backing_tier" ends the process in that getProjectData call:
\* the entry is not in the catalog, initialized is false, and neither the
\* watch selection nor a poll followed.
C13_MalformedBootstrapAborts ==
    MalformedBootstrap =>
        /\ pc = "halted" /\ halt = "panic:getProjectData"
        /\ ~project.initialized
        /\ \A a \in DOMAIN heap : heap[a].title_with_price # Absent
        /\ watch = <<>> /\ ~prompted /\ warned = {}
        /\ notified = {}

\* C13 witness: the panic came on the second entry, after a first qualifying
\* entry had been inserted.
C13_Witness ==
    /\ MalformedBootstrap
    /\ pc = "halted" /\ halt = "panic:getProjectData"
    /\ DOMAIN project.rewards = {1}
    /\ ~project.initialized

\* The latest response is one getProjectJSON gives up on.
Fatal == pc = "halted" /\ halt = "fatal"

\* C14 (as the code has it): the latest response is a transport failure or
\* carries a status other than 200 exactly when the process has ended in
\* log.Fatal on it (the end of the run: no step follows); after a 200
\* response the call went on to the parsing.
C14_FetchFailure ==
    response # NoResponse =>
        /\ (response.err \/ response.status # 200) <=> Fatal
        /\ Fatal \/ fetches >= 1

\* C14 witness: a poll after the bootstrap got status 204 and the process
\* ended in log.Fatal.
C14_Witness ==
    /\ Fatal /\ fetches >= 1
    /\ ~response.err /\ response.status = 204

\* C14 as stated: the fetch is fatal exactly when the transport failed or the
\* status is outside 200..299.
C14_FatalOutside2xx ==
    response # NoResponse =>
        ((response.err \/ response.status \notin 200..299) <=> Fatal)

\* No script of page b matches the pattern, or the first one that does holds
\* text that is not valid JSON.
ExtractionFails(b) ==
    \/ \A i \in DOMAIN b : ~b[i].match
    \/ \E i \in DOMAIN b : /\ b[i].match /\ ~b[i].valid
                            /\ \A j \in 1..(i - 1) : ~b[j].match

\* C15: a getProjectData call whose page has no matching script, or whose
\* first matching script is not valid JSON, ends the process in that call
\* (whatever scripts follow the first match), leaving the catalog, the
\* Reward objects, the watch set and the notifications as they were.
C15_ExtractionFailureAborts ==
    [][ ( /\ response' # response
          /\ ~response'.err /\ response'.status = 200
          /\ ExtractionFails(response'.body) )
        => ( /\ pc' = "halted" /\ halt' = "panic:getProjectData"
             /\ project' = project /\ heap' = heap /\ watch' = watch
             /\ notified' = notified /\ sent' = sent ) ]_vars

\* C15 witness: a poll after the bootstrap, on a page whose first matching
\* script is invalid and whose second holds a valid document, ended the
\* process with the catalog in place.
C15_Witness ==
    /\ pc = "halted" /\ halt = "panic:getProjectData"
    /\ fetches >= 2 /\ project.initialized /\ DOMAIN project.rewards # {}
    /\ Len(response.body) = 2
    /\ response.body[1] = BadScript /\ response.body[2].valid
    /\ doc = NoDoc

\* C16: once registerWatchedRewards has returned, every key of
\* settings.watch is a key of project.rewards, the two maps hold the same
\* non-nil pointer under it, and the Reward it points to has that key as id.
C16_WatchSharesCatalogObjects ==
    Watching =>
        \A k \in DOMAIN watch :
            /\ k \in Keys
            /\ watch[k] # NIL
            /\ watch[k] = project.rewards[k]
            /\ heap[watch[k]].id = k

\* C16 witness: a prompt-chosen watch set, smaller than the catalog, in a
\* scan after a poll that wrote a new limit into the watched Reward.
C16_Witness ==
    /\ pc = "scan" /\ prompted
    /\ Cardinality(DOMAIN watch) < Cardinality(Keys)
    /\ \E k \in DOMAIN watch :
          /\ heap[watch[k]].limit > 0
          /\ \E e \in Range(doc.rewards) : e.id = k /\ e.limit = heap[watch[k]].limit

\* C17: once registerWatchedRewards has returned, no step changes the key
\* set of settings.watch.
C17_WatchKeysFixed ==
    [][ Watching => DOMAIN watch' = DOMAIN watch ]_vars

\* C17 witness: under --all, a scan after a second poll; the polls wrote into
\* the catalog's Rewards and the watch set still has the catalog's two keys.
C17_Witness ==
    /\ pc = "scan" /\ argv.all /\ fetches >= 3
    /\ DOMAIN watch = {1, 2}
    /\ \E a \in DOMAIN heap : heap[a].limit > 0

\* C18: whenever registerWatchedRewards has returned and the loop runs,
\* settings.watch is not empty.
C18_WatchNonEmpty ==
    Watching => DOMAIN watch # {}

\* C19: the loop runs sleep, one getProjectData call (fetch and reconcile),
\* then one scan, in that order: a fetch starts only from the sleep, the
\* sleep only after registerWatchedRewards or a finished scan, a scan only
\* after the cycle's getProjectData call; scan steps visit each watch key once
\* and write neither the catalog nor the Rewards; notifications come from
\* scan steps alone, and nothing is scanned or notified before the first
\* sleep.
C19_CycleOrder ==
    /\ [][ /\ (pc' = "fetch" /\ pc # "fetch") => pc = "sleep"
           /\ (pc' = "sleep" /\ pc # "sleep") =>
                  (pc = "register" \/ (pc = "scan" /\ scanTodo = {}))
           /\ (pc' = "scan" /\ pc # "scan") =>
                  /\ pc = "fetch"
                  /\ fetches' = fetches + 1
                  /\ scanTodo' = DOMAIN watch'
           /\ pc = "sleep" => (pc' = "fetch" /\ fetches' = fetches /\ heap' = heap)
           /\ pc = "scan" =>
                  /\ project' = project /\ heap' = heap /\ fetches' = fetches
                  /\ pc' # "sleep" =>
                         (scanTodo' \subseteq scanTodo /\ scanTodo' # scanTodo)
           /\ notified' # notified => pc = "scan" ]_vars
    /\ [](fetches <= 1 => (pc # "scan" /\ scanTodo = {} /\ notified = {}))

\* C19 witness: the scan of the second cycle is over, with two watched
\* rewards visited.
C19_Witness ==
    /\ pc = "scan" /\ scanTodo = {} /\ fetches = 3
    /\ Cardinality(DOMAIN watch) = 2

\* C20: initialized turns true in one step only, the first getProjectData
\* call ending without a panic, and no step turns it false or changes
\* project.name or project.currency_symbol afterwards; they are the
\* bootstrap document's.
C20_InitializedOnce ==
    /\ [][ /\ (~project.initialized /\ project'.initialized) =>
                  (pc = "bootstrap" /\ fetches = 0 /\ pc' = "register")
           /\ project.initialized =>
                  /\ project'.initialized
                  /\ project'.name = project.name
                  /\ project'.currency_symbol = project.currency_symbol ]_vars
    /\ [](pc = "register" =>
            /\ project.initialized
            /\ project.name = doc.name
            /\ project.currency_symbol = doc.currency_symbol)
    /\ [](pc \in {"sleep", "fetch", "scan"} => project.initialized)

\* C20 witness: a scan after a poll whose document carries another project
\* name than the one kept since the bootstrap.
C20_Witness ==
    /\ pc = "scan" /\ fetches >= 2
    /\ project.initialized /\ project.name = "proj"
    /\ doc.name = "proj2" /\ doc.currency_symbol = "EUR"

\* C21: once a getProjectData call has returned, every catalog reward has
\* available >= 0 and limit > 0; when the bootstrap call returns, each
\* reward's limit is the one its entry declares.
C21_QuantitiesInRange ==
    project.initialized =>
        /\ \A i \in Keys : Catalog(i).available >= 0 /\ Catalog(i).limit > 0
        /\ pc = "register" =>
               \A i \in Keys : \E e \in Range(doc.rewards) :
                   e.id = i /\ e.hasLimit /\ Catalog(i).limit = e.limit

\* C21 witness: a scan after a poll whose document lists a catalog reward
\* without a limit; the reward keeps the limit an earlier call wrote.
C21_Witness ==
    /\ pc = "scan" /\ fetches >= 2
    /\ \E e \in Range(doc.rewards) :
          e.id \in Keys /\ ~e.hasLimit /\ Catalog(e.id).limit > 0

\* C22: SendNotification hands a message to the Telegram channel exactly when
\* the token is non-empty and the user id is non-zero; with the channel
\* unconfigured every call delivers nothing, returns nil and leaves the
\* caller running.
C22_SendOnlyWhenConfigured ==
    IF argv.tgToken # "" /\ argv.tgUserID # 0
    THEN sent = notified
    ELSE /\ sent = {}
         /\ pc = "send" /\ halt = ""
         /\ notified # {} => sendResult = "nil"

\* C22 witness: the token is set and the user id is 0; two messages were
\* passed to SendNotification, none was delivered and the call returned nil.
C22_Witness ==
    /\ pc = "send"
    /\ argv.tgToken # "" /\ argv.tgUserID = 0
    /\ Cardinality(notified) = 2 /\ sent = {}
    /\ sendResult = "nil"

\* The scan of cycle c (the cycle of the c-th getProjectData call) has run
\* to its end.
ScanFinished(c) ==
    /\ c \in 2..fetches
    /\ c < fetches \/ pc \in {"sleep", "fetch"} \/ halt = "fatal"

\* C23: the heartbeat of a cycle is printed exactly when the cycle's scan has
\* finished without a notification and quiet mode is off, and at most once
\* per cycle.
C23_Heartbeat ==
    /\ \A c \in 1..(fetches + 1) :
          (c \in Range(heartbeats)) <=>
              ( /\ ScanFinished(c)
                /\ ~argv.quiet
                /\ \A n \in notified : n[1] # c )
    /\ Cardinality(Range(heartbeats)) = Len(heartbeats)

\* C23 witness: two cycles are over without a notification and quiet mode is
\* off: one heartbeat was printed for each.
C23_Witness ==
    /\ pc = "sleep" /\ fetches = 3 /\ ~argv.quiet
    /\ heartbeats = <<2, 3>>

====
